---- MODULE Spec2Model ----
(***************************************************************************)
(* Competitor discovery and storage pipeline of warrensiro/Scraping:       *)
(*   src/src/db.py              Database (a TinyDB table "products")       *)
(*   src/src/oxylabs_client.py  the external search / detail client        *)
(*   src/src/services.py        scrape_and_store_product,                  *)
(*                              fetch_and_store_competitors, clear_*       *)
(*                                                                         *)
(* A Python dict is a TLA+ function whose domain is the set of its keys;   *)
(* Python's None is the string "None"; a list is a sequence.  The table is *)
(* the sequence of its documents in insertion order (TinyDB keeps them by  *)
(* increasing doc_id, so a document's position stands for its doc_id).     *)
(* The fields url, brand, price, stock, rating, images, currency, buybox   *)
(* and product_overview are copied by the code and never read by it; they  *)
(* are left out of the dicts.                                              *)
(***************************************************************************)
EXTENDS Integers, Sequences, FiniteSets, TLC

VARIABLES
    products,   \* Database.products: the documents of the table
    clock,      \* the value datetime.now() last returned to _now_iso
    pc,         \* "idle", "fetch" (inside fetch_and_store_competitors), "returned"
    run,        \* the locals of the running fetch_and_store_competitors
    ret,        \* what the call that just finished did and returned
    world,      \* the external API when its answers are held fixed
    runs,       \* the discovery runs finished against the fixed external API
    sessions,   \* the upsert_product calls of the dashboard sessions (threads)
                \* that share the Database of get_db
    http        \* the running _post_query call: its attempts and its waits

vars == <<products, clock, pc, run, ret, world, runs, sessions, http>>

---------------------------------------------------------------------------
(* Bounds of the model *)

MaxClock == 2
MaxLimit == 2
MaxPages == 1
MaxHits == 2

Ids == {"P1", "C1", "C2"}
None == "None"
\* None where the code expects a dict
NoneDict == [none |-> TRUE]
Titles == {"t", None}
DomainArgs == {"com"}
GeoArgs == {""}

---------------------------------------------------------------------------
(* Python built-ins *)

\* truthiness of a str-or-None value
Truthy(v) == v # None /\ v # ""

get(d, k) == IF k \in DOMAIN d THEN d[k] ELSE None

\* d.get(k, default)
getOr(d, k, default) == IF k \in DOMAIN d THEN d[k] ELSE default

update(d, e) == e @@ d

setdefault(d, k, v) == IF k \in DOMAIN d THEN d ELSE (k :> v) @@ d

Range(s) == {s[i] : i \in 1..Len(s)}

Take(s, n) == SubSeq(s, 1, IF n < Len(s) THEN n ELSE Len(s))

Max(a, b) == IF a > b THEN a ELSE b

\* list(a set): the elements once each, in an order the hash seed decides
Orderings(S) ==
    {s \in [1..Cardinality(S) -> S] : \A x \in S : \E i \in DOMAIN s : s[i] = x}

\* str.strip() on the category strings of the model
strip(s) ==
    CASE s = "c2 " -> "c2"
      [] s = " " -> ""
      [] OTHER -> s

---------------------------------------------------------------------------
(* src/src/db.py *)

Matching(docs, field, value) ==
    {i \in 1..Len(docs) : field \in DOMAIN docs[i] /\ docs[i][field] = value}

\* mutant of table_upsert: the table is replaced by the document
table_upsert_replacing(docs, data, field, value) == <<data>>

\* mutant of table_upsert: the document is inserted whether or not one matches
table_upsert_insert(docs, data, field, value) == Append(docs, data)

\* tinydb Table.upsert(document, cond): update every matching document,
\* insert the document when none matches
table_upsert(docs, data, field, value) ==
    IF Matching(docs, field, value) # {}
    THEN [i \in 1..Len(docs) |->
            IF i \in Matching(docs, field, value) THEN update(docs[i], data) ELSE docs[i]]
    ELSE Append(docs, data)

\* tinydb Table.remove(cond)
table_remove(docs, field, value) ==
    SelectSeq(docs, LAMBDA d : ~(field \in DOMAIN d /\ d[field] = value))

\* Database.upsert_product; `now` is what _now_iso() returns (both reads of
\* one call fall in the same clock tick)
upsert_product(docs, product, now) ==
    IF ~Truthy(get(product, "asin"))
    THEN [raised |-> TRUE, products |-> docs]
    ELSE LET data == setdefault(
                        setdefault(update(product, [updated_at |-> now]),
                                   "created_at", now),
                        "type", "product")
         IN  [raised |-> FALSE,
              products |-> table_upsert(docs, data, "asin", product["asin"])]

\* upsert_product, lines 34-37: the document handed to Table.upsert
upsert_data(product, now) ==
    setdefault(setdefault(update(product, [updated_at |-> now]),
                          "created_at", now),
               "type", "product")

\* tinydb Table.update(fields, cond): the table with every matching document
\* updated
table_update(docs, data, field, value) ==
    [i \in 1..Len(docs) |->
        IF i \in Matching(docs, field, value) THEN update(docs[i], data) ELSE docs[i]]

\* mutant of get_product: an empty record instead of None for a missing asin
get_product_or_stub(docs, asin) ==
    IF Matching(docs, "asin", asin) = {}
    THEN [asin |-> asin, title |-> "t"]
    ELSE docs[CHOOSE i \in Matching(docs, "asin", asin) :
                 \A j \in Matching(docs, "asin", asin) : i <= j]

\* Database.get_product: Table.get returns the first matching document
get_product(docs, asin) ==
    IF Matching(docs, "asin", asin) = {}
    THEN NoneDict
    ELSE docs[CHOOSE i \in Matching(docs, "asin", asin) :
                 \A j \in Matching(docs, "asin", asin) : i <= j]

get_all_products(docs) == SelectSeq(docs, LAMBDA d : get(d, "type") = "product")

get_competitors(docs, parent_asin) ==
    SelectSeq(docs, LAMBDA d : get(d, "parent_asin") = parent_asin
                               /\ get(d, "type") = "competitor")

delete_product(docs, asin) == table_remove(docs, "asin", asin)

delete_competitors(docs, parent_asin) == table_remove(docs, "parent_asin", parent_asin)

clear_all(docs) == << >>

---------------------------------------------------------------------------
(* src/src/oxylabs_client.py                                               *)
(*                                                                         *)
(* _post_query either raises (its retries are used up) or returns the      *)
(* response; a response is given here by the content _extract_content      *)
(* finds in it.                                                            *)

Fail == [failed |-> TRUE]

\* line 13
MAX_RETRIES == 3

\* line 14: 1.5 s, in tenths of a second
RETRY_BACKOFF == 15

\* http.pc: "idle", "request" (about to post), "sleep" (about to wait),
\*          "done"
\* http.status: "none", "returned", "raised" (the RequestException of the
\*          last attempt), "unreachable" (the RuntimeError of line 46)
\* http.outcomes: per request posted, whether it succeeded
\* http.sleeps: the waits, each in tenths of a second
NoHttp ==
    [pc |-> "idle", status |-> "none", payload |-> NoneDict, attempt |-> 0,
     outcomes |-> << >>, sleeps |-> << >>, value |-> NoneDict]

\* mutant of last_attempt: one more attempt is allowed for
last_attempt_late(attempt) == attempt = MAX_RETRIES + 1

\* line 42
last_attempt(attempt) == attempt = MAX_RETRIES

Strategies == <<"featured", "price_ascending", "price_descending">>

\* the items _extract_search_items finds in a search response: a valid hit
\* for each id, and a hit without title
SearchItems ==
    [asin : Ids, title : {"t"}] \cup {[asin |-> "C2", title |-> None]}

Listings == UNION {[1..n -> SearchItems] : n \in 0..MaxHits}

\* the external search API: the listing it answers every request with, and
\* the sort strategy (if any) whose requests fail after all retries
SearchEnvs ==
    [listing : Listings, failing : {None}]
        \cup [listing : {<<[asin |-> "C1", title |-> "t"], [asin |-> "C2", title |-> "t"]>>},
              failing : Range(Strategies)]

\* the categories the catalog files a product under
CatalogCategories(asin) ==
    CASE asin = "P1" -> <<"c1", "c2 ", " ">>
      [] asin = "C1" -> <<"c1">>
      [] OTHER -> << >>

\* the content of a detail response
DetailContents ==
    {[asin |-> a, title |-> "t", categories |-> CatalogCategories(a),
      category_path |-> << >>] : a \in Ids}
        \cup {[asin |-> "C1", title |-> None, categories |-> << >>,
                category_path |-> << >>],
               [asin |-> None, title |-> None, categories |-> << >>,
                category_path |-> << >>]}

DetailResponses == {Fail} \cup DetailContents

search_response(env, payload) ==
    IF payload.sort_by = env.failing THEN Fail ELSE [items |-> env.listing]

_normalize_product(content) ==
    [asin |-> getOr(content, "asin", None),
     title |-> getOr(content, "title", None),
     categories |-> getOr(content, "categories", << >>),
     category_path |->
        LET cp == getOr(content, "category_path", << >>)
            kept == SelectSeq(cp, LAMBDA c : strip(c) # "")
        IN  [i \in 1..Len(kept) |-> strip(kept[i])]]

\* scrape_product_details, lines 70-78: the payload of the request
detail_payload(asin, geo_location, domain) ==
    IF Truthy(geo_location)
    THEN [source |-> "amazon_product", query |-> asin, domain |-> domain,
          geo_location |-> geo_location]
    ELSE [source |-> "amazon_product", query |-> asin, domain |-> domain]

\* scrape_product_details, given what _post_query did
scrape_product_details(asin, geo_location, domain, resp) ==
    IF resp = Fail
    THEN [raised |-> TRUE, product |-> << >>]
    ELSE [raised |-> FALSE,
          product |->
            update(setdefault(_normalize_product(resp), "asin", asin),
                   [amazon_domain |-> domain,
                    geo_location |-> IF Truthy(geo_location) THEN geo_location ELSE ""])]

_normalize_search_result(item) ==
    IF ~Truthy(get(item, "asin")) \/ ~Truthy(get(item, "title"))
    THEN NoneDict
    ELSE [asin |-> item.asin, title |-> item.title]

\* the loop over the items of one response (lines 154-161)
RECURSIVE add_items(_, _, _, _)
add_items(items, i, results, seen_asins) ==
    IF i > Len(items)
    THEN [results |-> results, seen_asins |-> seen_asins]
    ELSE LET normalized == _normalize_search_result(items[i])
         IN  IF normalized = NoneDict
             THEN add_items(items, i + 1, results, seen_asins)
             ELSE IF normalized.asin \notin seen_asins
                  THEN add_items(items, i + 1, Append(results, normalized),
                                 seen_asins \cup {normalized.asin})
                  ELSE add_items(items, i + 1, results, seen_asins)

\* the payloads of one search_competitors call, in the order of its loops
\* (lines 136-149; category None: no refinement)
search_payloads(domain, category, pages, geo_location) ==
    LET n == Max(1, pages)
    IN  [k \in 1..(Len(Strategies) * n) |->
            [source |-> "amazon_search",
             domain |-> domain,
             page |-> ((k - 1) % n) + 1,
             sort_by |-> Strategies[((k - 1) \div n) + 1],
             geo_location |-> geo_location,
             category |-> category]]

RECURSIVE search_loop(_, _, _, _, _)
search_loop(env, payloads, k, results, seen_asins) ==
    IF k > Len(payloads)
    THEN [raised |-> FALSE, results |-> results, requests |-> Len(payloads),
          failures |-> 0, payloads |-> payloads]
    ELSE LET raw == search_response(env, payloads[k])
         IN  IF raw = Fail
             THEN [raised |-> TRUE, results |-> results, requests |-> k,
                   failures |-> 1, payloads |-> SubSeq(payloads, 1, k)]
             ELSE LET acc == add_items(raw.items, 1, results, seen_asins)
                  IN  search_loop(env, payloads, k + 1, acc.results, acc.seen_asins)

\* _clean_product_name raises TypeError on a title that is None
search_competitors(env, query_title, domain, category, pages, geo_location) ==
    IF query_title = None
    THEN [raised |-> TRUE, results |-> << >>, requests |-> 0, failures |-> 0,
          payloads |-> << >>]
    ELSE search_loop(env, search_payloads(domain, category, pages, geo_location),
                     1, << >>, {})

---------------------------------------------------------------------------
(* src/src/services.py *)

\* mutant of scrape_and_store_product: the title is not tested before the
\* upsert
scrape_and_store_product_unchecked(docs, asin, geo_location, domain, resp, now) ==
    LET scraped == scrape_product_details(asin, geo_location, domain, resp)
    IN  IF scraped.raised
        THEN [raised |-> TRUE, products |-> docs, data |-> << >>]
        ELSE LET data == update(scraped.product,
                                [asin |-> asin,
                                 geo_location |-> geo_location,
                                 amazon_domain |-> domain,
                                 type |-> "product"])
             IN  [raised |-> upsert_product(docs, data, now).raised,
                  products |-> upsert_product(docs, data, now).products,
                  data |-> data]

\* scrape_and_store_product, given what _post_query did
scrape_and_store_product(docs, asin, geo_location, domain, resp, now) ==
    LET scraped == scrape_product_details(asin, geo_location, domain, resp)
    IN  IF scraped.raised
        THEN [raised |-> TRUE, products |-> docs, data |-> << >>]
        ELSE LET data == update(scraped.product,
                                [asin |-> asin,
                                 geo_location |-> geo_location,
                                 amazon_domain |-> domain,
                                 type |-> "product"])
             IN  IF ~Truthy(get(data, "title"))
                 THEN [raised |-> TRUE, products |-> docs, data |-> << >>]
                 ELSE [raised |-> upsert_product(docs, data, now).raised,
                       products |-> upsert_product(docs, data, now).products,
                       data |-> data]

\* mutant of search_domain: the caller's value is preferred to the parent's
search_domain_caller_first(parent, domain) ==
    IF Truthy(domain) THEN domain
    ELSE IF Truthy(get(parent, "amazon_domain")) THEN parent["amazon_domain"]
    ELSE "com"

\* lines 73-74
search_domain(parent, domain) ==
    IF Truthy(get(parent, "amazon_domain")) THEN parent["amazon_domain"]
    ELSE IF Truthy(domain) THEN domain ELSE "com"

search_geo(parent, geo_location) ==
    IF Truthy(get(parent, "geo_location")) THEN parent["geo_location"]
    ELSE IF Truthy(geo_location) THEN geo_location ELSE ""

\* lines 84-88
search_categories(parent) ==
    {strip(c) : c \in {x \in Range(getOr(parent, "categories", << >>))
                             \cup Range(getOr(parent, "category_path", << >>)) :
                         strip(x) # ""}}

\* mutant of category_lists: the list is not cut to 3
category_lists_uncut(parent) ==
    IF search_categories(parent) = {}
    THEN {<<None>>}
    ELSE Orderings(search_categories(parent))

\* line 90: list(search_categories)[:3] or [None]; the list order of a set of
\* str is decided by the process's hash seed
category_lists(parent) ==
    IF search_categories(parent) = {}
    THEN {<<None>>}
    ELSE {Take(o, 3) : o \in Orderings(search_categories(parent))}

\* lines 92-101
RECURSIVE search_all(_, _, _, _, _, _, _, _, _)
search_all(env, query_title, domain, geo, categories, pages, i, all_results, payloads) ==
    IF i > Len(categories)
    THEN [raised |-> FALSE, all_results |-> all_results,
          requests |-> Len(payloads), failures |-> 0, payloads |-> payloads]
    ELSE LET r == search_competitors(env, query_title, domain, categories[i],
                                     pages, geo)
         IN  IF r.raised
             THEN [raised |-> TRUE, all_results |-> << >>,
                   requests |-> Len(payloads) + r.requests,
                   failures |-> r.failures,
                   payloads |-> payloads \o r.payloads]
             ELSE search_all(env, query_title, domain, geo, categories, pages,
                             i + 1, all_results \o r.results,
                             payloads \o r.payloads)

\* mutant of competitor_asin_set: the parent's own asin is not excluded
competitor_asin_set_with_parent(all_results, parent_asin) ==
    {all_results[i].asin : i \in {j \in 1..Len(all_results) :
        /\ Truthy(all_results[j].asin)
        /\ Truthy(all_results[j].title)}}

\* lines 103-109: the set the list competitor_asins is made from
competitor_asin_set(all_results, parent_asin) ==
    {all_results[i].asin : i \in {j \in 1..Len(all_results) :
        /\ Truthy(all_results[j].asin)
        /\ Truthy(all_results[j].title)
        /\ all_results[j].asin # parent_asin}}

\* mutant of scrape_multiple_step: the exception of a fetch is not caught
scrape_multiple_step_uncaught(products_, asin, geo_location, domain, resp) ==
    LET r == scrape_product_details(asin, geo_location, domain, resp)
    IN  IF r.raised
        THEN [raised |-> TRUE, products |-> products_]
        ELSE [raised |-> FALSE, products |-> Append(products_, r.product)]

\* scrape_multiple_products, lines 213-222, one iteration of the loop: the
\* product is appended, or the exception of the fetch is caught and logged
scrape_multiple_step(products_, asin, geo_location, domain, resp) ==
    LET r == scrape_product_details(asin, geo_location, domain, resp)
    IN  IF r.raised
        THEN [raised |-> FALSE, products |-> products_]
        ELSE [raised |-> FALSE, products |-> Append(products_, r.product)]

\* mutant of store_competitors: the scraped products are upserted and
\* returned as they came, without the stamps of lines 128-135
RECURSIVE store_competitors_unstamped(_, _, _, _, _, _, _, _)
store_competitors_unstamped(docs, scraped_products, i, stored, parent_asin, domain, geo, now) ==
    IF i > Len(scraped_products)
    THEN [products |-> docs, stored |-> stored]
    ELSE IF ~Truthy(get(scraped_products[i], "asin"))
         THEN store_competitors_unstamped(docs, scraped_products, i + 1, stored,
                                          parent_asin, domain, geo, now)
         ELSE store_competitors_unstamped(
                  upsert_product(docs, scraped_products[i], now).products,
                  scraped_products, i + 1, Append(stored, scraped_products[i]),
                  parent_asin, domain, geo, now)

\* lines 123-140: the loop that stamps and upserts the scraped products
RECURSIVE store_competitors(_, _, _, _, _, _, _, _)
store_competitors(docs, scraped_products, i, stored, parent_asin, domain, geo, now) ==
    IF i > Len(scraped_products)
    THEN [products |-> docs, stored |-> stored]
    ELSE IF ~Truthy(get(scraped_products[i], "asin"))
         THEN store_competitors(docs, scraped_products, i + 1, stored,
                                parent_asin, domain, geo, now)
         ELSE LET product == update(scraped_products[i],
                                    [type |-> "competitor",
                                     parent_asin |-> parent_asin,
                                     amazon_domain |-> domain,
                                     geo_location |-> geo])
              IN  store_competitors(upsert_product(docs, product, now).products,
                                    scraped_products, i + 1, Append(stored, product),
                                    parent_asin, domain, geo, now)

---------------------------------------------------------------------------
(* The state machine: one caller at a time (each dashboard action runs to  *)
(* its end before the next), every call of the service layer an operation. *)
(* fetch_and_store_competitors is cut where it waits for the network:      *)
(* after the search fan-out, and after each detail fetch of the batch.     *)
(* The clock advances by one tick between two upserts that a network       *)
(* round trip separates.                                                   *)

\* hits: the items the search API served; attempted, responses: the asins
\* scrape_multiple_products asked for and what _post_query did for each
NoRun ==
    [parent_asin |-> None, domain |-> None, geo |-> None, limit |-> 0,
     before |-> << >>, hits |-> << >>, all_results |-> << >>,
     competitor_asins |-> << >>, asins |-> << >>, i |-> 0,
     scraped_products |-> << >>, attempted |-> << >>, responses |-> << >>,
     searches |-> 0, arg_domain |-> None, arg_geo |-> None, pages |-> 0,
     categories |-> << >>, payloads |-> << >>, detail_requests |-> << >>]

\* ret.op: "none", "scrape", "discover", "clear_competitors", "clear_all",
\*         "upsert", "delete"
\* ret.status: "ok" (returned normally), "raised"
\* ret.searches, ret.details: the search and detail requests the call issued;
\* ret.failures: the search requests among them that failed
\* ret.payloads, ret.detail_requests: the payloads of those requests
\* ret.arg_domain, ret.arg_geo, ret.pages: the caller's arguments
\* ret.domain, ret.geo: search_domain and search_geo of the run
\* ret.categories: the list `categories` of the run
NoRet ==
    [op |-> "none", status |-> "none", asin |-> None, limit |-> 0,
     value |-> << >>, before |-> << >>, hits |-> << >>, all_results |-> << >>,
     competitor_asins |-> << >>, asins |-> << >>, attempted |-> << >>,
     searches |-> 0, details |-> 0, failures |-> 0,
     arg_domain |-> None, arg_geo |-> None, pages |-> 0,
     domain |-> None, geo |-> None, categories |-> << >>,
     payloads |-> << >>, detail_requests |-> << >>]

Unset == [unset |-> TRUE]

\* the dashboard sessions: Streamlit runs each in a thread of its own, and
\* st.cache_resource hands all of them the one Database of get_db
Threads == {"s1", "s2"}

\* session.pc: "idle", "update_read", "update_write", "insert_read",
\*             "insert_write", "done"
NoSession ==
    [pc |-> "idle", status |-> "none", product |-> NoneDict, now |-> 0,
     data |-> NoneDict, tables |-> << >>]

\* base: the table when the sessions began
NoSessions == [base |-> << >>, of |-> [t \in Threads |-> NoSession]]

FreeWorld ==
    [fixed |-> FALSE,
     search |-> [listing |-> << >>, failing |-> None],
     detail |-> [a \in Ids |-> Unset]]

\* what the search API may be in this state
SearchChoices == IF world.fixed THEN {world.search} ELSE SearchEnvs

\* what a detail request for asin may be answered in this state
DetailChoices(asin) ==
    IF world.fixed /\ world.detail[asin] # Unset
    THEN {world.detail[asin]}
    ELSE DetailResponses

Answered(asin, resp) ==
    IF world.fixed THEN [world EXCEPT !.detail[asin] = resp] ELSE world

Init ==
    /\ products = << >>
    /\ clock = 0
    /\ pc = "idle"
    /\ run = NoRun
    /\ ret = NoRet
    /\ world = FreeWorld
    /\ runs = << >>
    /\ sessions = NoSessions
    /\ http = NoHttp

ScrapeAndStore(asin, geo_location, domain, resp) ==
    /\ pc = "idle"
    /\ LET r == scrape_and_store_product(products, asin, geo_location, domain,
                                         resp, clock + 1)
       IN  /\ r.raised \/ clock < MaxClock
           /\ products' = r.products
           /\ clock' = IF r.raised THEN clock ELSE clock + 1
           /\ ret' = [NoRet EXCEPT !.op = "scrape",
                                   !.status = IF r.raised THEN "raised" ELSE "ok",
                                   !.asin = asin,
                                   !.value = IF r.raised THEN << >> ELSE <<r.data>>,
                                   !.before = products,
                                   !.details = 1]
    /\ pc' = "returned"
    /\ world' = Answered(asin, resp)
    /\ runs' = << >>
    /\ UNCHANGED <<run, sessions, http>>

\* fetch_and_store_competitors, lines 67-71: the parent is not in the Store
DiscoverNoParent(parent_asin) ==
    /\ pc = "idle"
    /\ get_product(products, parent_asin) = NoneDict
    /\ ret' = [NoRet EXCEPT !.op = "discover", !.status = "raised",
                            !.asin = parent_asin, !.before = products]
    /\ pc' = "returned"
    /\ UNCHANGED <<products, clock, run, world, runs, sessions, http>>

\* a finished discovery run, as the history of runs keeps it
RunSummary(r, docs) ==
    [parent_asin |-> r.asin, limit |-> r.limit, status |-> r.status,
     ids |-> {get(r.value[i], "asin") : i \in 1..Len(r.value)},
     competitors |-> {get(get_competitors(docs, r.asin)[i], "asin") :
                        i \in 1..Len(get_competitors(docs, r.asin))},
     updated_at |-> [a \in Ids |-> getOr(get_product(docs, a), "updated_at", 0)]]

Remember(r, docs) ==
    IF world.fixed
    THEN IF Len(runs) < 2 THEN Append(runs, RunSummary(r, docs))
         ELSE <<runs[2], RunSummary(r, docs)>>
    ELSE runs

\* fetch_and_store_competitors, lines 67-121: up to the call of
\* scrape_multiple_products
StartDiscovery(parent_asin, domain, geo_location, pages, env) ==
    /\ pc = "idle"
    /\ get_product(products, parent_asin) # NoneDict
    /\ \E parent \in {get_product(products, parent_asin)} :
       \E categories \in category_lists(parent) :
       \E s \in {search_all(env, get(parent, "title"),
                            search_domain(parent, domain),
                            search_geo(parent, geo_location),
                            categories, pages, 1, << >>, << >>)} :
       \E found \in {competitor_asin_set(s.all_results, parent_asin)} :
       \E limit \in 0..MaxLimit :
       \E r0 \in {[NoRet EXCEPT !.op = "discover", !.asin = parent_asin,
                                !.limit = limit, !.before = products,
                                !.searches = s.requests,
                                !.failures = s.failures,
                                !.arg_domain = domain,
                                !.arg_geo = geo_location,
                                !.pages = pages,
                                !.domain = search_domain(parent, domain),
                                !.geo = search_geo(parent, geo_location),
                                !.categories = categories,
                                !.payloads = s.payloads]} :
          \/ /\ s.raised
             /\ ret' = [r0 EXCEPT !.status = "raised"]
             /\ runs' = Remember([r0 EXCEPT !.status = "raised"], products)
             /\ pc' = "returned"
             /\ UNCHANGED run
          \/ /\ ~s.raised
             /\ found = {}
             /\ ret' = [r0 EXCEPT !.status = "ok", !.hits = env.listing,
                                  !.all_results = s.all_results]
             /\ runs' = Remember([r0 EXCEPT !.status = "ok"], products)
             /\ pc' = "returned"
             /\ UNCHANGED run
          \/ /\ ~s.raised
             /\ found # {}
             /\ clock < MaxClock
             /\ \E competitor_asins \in Orderings(found) :
                   run' = [NoRun EXCEPT
                             !.parent_asin = parent_asin,
                             !.domain = search_domain(parent, domain),
                             !.geo = search_geo(parent, geo_location),
                             !.limit = limit,
                             !.before = products,
                             !.hits = env.listing,
                             !.all_results = s.all_results,
                             !.competitor_asins = competitor_asins,
                             !.asins = Take(competitor_asins, limit),
                             !.i = 1,
                             !.searches = s.requests,
                             !.arg_domain = domain,
                             !.arg_geo = geo_location,
                             !.pages = pages,
                             !.categories = categories,
                             !.payloads = s.payloads]
             /\ pc' = "fetch"
             /\ UNCHANGED <<ret, runs>>
    /\ UNCHANGED <<products, clock, world, sessions, http>>

\* scrape_multiple_products, lines 213-222: one iteration of the loop
FetchOne ==
    /\ pc = "fetch"
    /\ run.i <= Len(run.asins)
    /\ \E resp \in DetailChoices(run.asins[run.i]) :
       \E step \in {scrape_multiple_step(run.scraped_products, run.asins[run.i],
                                         run.geo, run.domain, resp)} :
          /\ world' = Answered(run.asins[run.i], resp)
          /\ IF step.raised
             THEN /\ pc' = "returned"
                  /\ run' = NoRun
                  /\ ret' = [NoRet EXCEPT !.op = "discover", !.status = "raised",
                                          !.asin = run.parent_asin,
                                          !.limit = run.limit,
                                          !.before = run.before,
                                          !.asins = run.asins,
                                          !.attempted = Append(run.attempted,
                                                               run.asins[run.i]),
                                          !.searches = run.searches,
                                          !.details = run.i,
                                          !.arg_domain = run.arg_domain,
                                          !.arg_geo = run.arg_geo,
                                          !.pages = run.pages,
                                          !.domain = run.domain,
                                          !.geo = run.geo,
                                          !.categories = run.categories,
                                          !.payloads = run.payloads]
             ELSE /\ run' = [run EXCEPT
                               !.i = @ + 1,
                               !.scraped_products = step.products,
                               !.attempted = Append(@, run.asins[run.i]),
                               !.responses = Append(@, resp),
                               !.detail_requests =
                                  Append(@, detail_payload(run.asins[run.i],
                                                           run.geo, run.domain))]
                  /\ UNCHANGED <<pc, ret>>
    /\ UNCHANGED <<products, clock, runs, sessions, http>>

\* fetch_and_store_competitors, lines 123-148: store the batch and return
StoreCompetitors ==
    /\ pc = "fetch"
    /\ run.i > Len(run.asins)
    /\ LET r == store_competitors(products, run.scraped_products, 1, << >>,
                                  run.parent_asin, run.domain, run.geo, clock + 1)
           res == [NoRet EXCEPT !.op = "discover", !.status = "ok",
                                !.asin = run.parent_asin, !.limit = run.limit,
                                !.value = r.stored, !.before = run.before,
                                !.hits = run.hits,
                                !.all_results = run.all_results,
                                !.competitor_asins = run.competitor_asins,
                                !.asins = run.asins, !.attempted = run.attempted,
                                !.searches = run.searches,
                                !.details = Len(run.attempted),
                                !.arg_domain = run.arg_domain,
                                !.arg_geo = run.arg_geo,
                                !.pages = run.pages,
                                !.domain = run.domain,
                                !.geo = run.geo,
                                !.categories = run.categories,
                                !.payloads = run.payloads,
                                !.detail_requests = run.detail_requests]
       IN  /\ products' = r.products
           /\ clock' = IF r.stored = << >> THEN clock ELSE clock + 1
           /\ ret' = res
           /\ runs' = Remember(res, r.products)
    /\ pc' = "returned"
    /\ run' = NoRun
    /\ UNCHANGED <<world, sessions, http>>

ClearCompetitors(parent_asin) ==
    /\ pc = "idle"
    /\ products' = delete_competitors(products, parent_asin)
    /\ ret' = [NoRet EXCEPT !.op = "clear_competitors", !.status = "ok",
                            !.asin = parent_asin, !.before = products]
    /\ pc' = "returned"
    /\ runs' = << >>
    /\ UNCHANGED <<clock, run, world, sessions, http>>

ClearAllProducts ==
    /\ pc = "idle"
    /\ products' = clear_all(products)
    /\ ret' = [NoRet EXCEPT !.op = "clear_all", !.status = "ok", !.before = products]
    /\ pc' = "returned"
    /\ runs' = << >>
    /\ UNCHANGED <<clock, run, world, sessions, http>>

\* the caller takes the result
Return ==
    /\ pc = "returned"
    /\ pc' = "idle"
    /\ ret' = NoRet
    /\ UNCHANGED <<products, clock, run, world, runs, sessions, http>>

\* the calls the dashboard makes, with their arguments
Scrape ==
    \E asin \in Ids, geo_location \in GeoArgs, domain \in DomainArgs :
       \E resp \in DetailChoices(asin) :
          ScrapeAndStore(asin, geo_location, domain, resp)

Discover ==
    \E parent_asin \in Ids, domain \in {None}, geo_location \in {None},
       pages \in 0..MaxPages, env \in SearchChoices :
          StartDiscovery(parent_asin, domain, geo_location, pages, env)

Next ==
    \/ Scrape
    \/ \E parent_asin \in Ids : DiscoverNoParent(parent_asin)
    \/ Discover
    \/ FetchOne
    \/ StoreCompetitors
    \/ \E parent_asin \in Ids : ClearCompetitors(parent_asin)
    \/ ClearAllProducts
    \/ Return

Spec == Init /\ [][Next]_vars

---------------------------------------------------------------------------
(* Discovery against an external API whose answers do not change: the      *)
(* Store holds one scraped product, the search API and the detail answers  *)
(* given so far are fixed, and discovery is run again and again.  The order *)
(* list() gives a set of str is still chosen anew by every run: the hash   *)
(* seed changes with the process.                                          *)

InitRerun ==
    \E asin \in Ids, env \in SearchEnvs,
       resp \in {c \in DetailContents : Truthy(c.title)} :
        /\ products = scrape_and_store_product(<< >>, asin, "", "com", resp, 0).products
        /\ clock = 0
        /\ pc = "idle"
        /\ run = NoRun
        /\ ret = NoRet
        /\ world = [fixed |-> TRUE, search |-> env,
                    detail |-> [a \in Ids |-> IF a = asin THEN resp ELSE Unset]]
        /\ runs = << >>
        /\ sessions = NoSessions
        /\ http = NoHttp

NextRerun ==
    \/ Discover
    \/ FetchOne
    \/ StoreCompetitors
    \/ Return

SpecRerun == InitRerun /\ [][NextRerun]_vars

---------------------------------------------------------------------------
(* The dashboard on a Store that already holds the scraped product P1,     *)
(* against an external API whose answers do not change: the search lists   *)
(* C1 and C2, and a detail request is answered as it was the first time.   *)

InitStocked ==
    \E resp \in {c \in DetailContents : c.asin = "P1"} :
        /\ products = scrape_and_store_product(<< >>, "P1", "", "com", resp, 0).products
        /\ clock = 0
        /\ pc = "idle"
        /\ run = NoRun
        /\ ret = NoRet
        /\ world = [fixed |-> TRUE,
                    search |-> [listing |-> <<[asin |-> "C1", title |-> "t"],
                                              [asin |-> "C2", title |-> "t"]>>,
                                failing |-> None],
                    detail |-> [a \in Ids |-> IF a = "P1" THEN resp ELSE Unset]]
        /\ runs = << >>
        /\ sessions = NoSessions
        /\ http = NoHttp

SpecStocked == InitStocked /\ [][Next]_vars

---------------------------------------------------------------------------
(* Discovery called with a domain and a geo of the caller's, for a parent  *)
(* that was scraped with or without a domain and a geo.  The search lists  *)
(* C1 and C2, and every detail request is answered with the product asked  *)
(* for.                                                                    *)

\* the domain and geo_location arguments of fetch_and_store_competitors
DomainChoices == {None, "", "de"}

GeoChoices == {None, "10001"}

InitResolve ==
    \E domain \in {"com", ""}, geo_location \in {"", "90210"} :
        /\ products =
              scrape_and_store_product(
                  << >>, "P1", geo_location, domain,
                  CHOOSE c \in DetailContents : c.asin = "P1", 1).products
        /\ clock = 1
        /\ pc = "idle"
        /\ run = NoRun
        /\ ret = NoRet
        /\ world = [fixed |-> TRUE,
                    search |-> [listing |-> <<[asin |-> "C1", title |-> "t"],
                                              [asin |-> "C2", title |-> "t"]>>,
                                failing |-> None],
                    detail |-> [a \in Ids |->
                                  CHOOSE c \in DetailContents : c.asin = a]]
        /\ runs = << >>
        /\ sessions = NoSessions
        /\ http = NoHttp

DiscoverWith ==
    \E parent_asin \in Ids, domain \in DomainChoices, geo_location \in GeoChoices,
       pages \in 0..MaxPages, env \in SearchChoices :
          StartDiscovery(parent_asin, domain, geo_location, pages, env)

NextResolve ==
    \/ DiscoverWith
    \/ FetchOne
    \/ StoreCompetitors
    \/ Return

SpecResolve == InitResolve /\ [][NextResolve]_vars

---------------------------------------------------------------------------
(* The Database used directly: any sequence of upsert_product,             *)
(* delete_product, delete_competitors and clear_all calls.  Between two    *)
(* calls the clock stays or advances by one tick.                          *)

\* the dicts upsert_product is called with
DbProducts ==
    [asin : {"P1", "C1", None}, title : Titles]
        \cup [asin : {"C1"}, title : {"t"}, type : {"competitor"}, parent_asin : {"P1"}]

DbUpsert(product, dt) ==
    /\ pc = "idle"
    /\ clock + dt <= MaxClock
    /\ \E r \in {upsert_product(products, product, clock + dt)} :
          /\ products' = r.products
          /\ clock' = IF r.raised THEN clock ELSE clock + dt
          /\ ret' = [NoRet EXCEPT !.op = "upsert",
                                  !.status = IF r.raised THEN "raised" ELSE "ok",
                                  !.asin = get(product, "asin"),
                                  !.value = <<product>>,
                                  !.before = products]
    /\ pc' = "returned"
    /\ UNCHANGED <<run, world, runs, sessions, http>>

DbDeleteProduct(asin) ==
    /\ pc = "idle"
    /\ products' = delete_product(products, asin)
    /\ ret' = [NoRet EXCEPT !.op = "delete", !.status = "ok", !.asin = asin,
                            !.before = products]
    /\ pc' = "returned"
    /\ UNCHANGED <<clock, run, world, runs, sessions, http>>

NextDb ==
    \/ \E product \in DbProducts, dt \in {0, 1} : DbUpsert(product, dt)
    \/ \E asin \in {"P1", "C1"} : DbDeleteProduct(asin)
    \/ \E parent_asin \in {"P1", "C1"} : ClearCompetitors(parent_asin)
    \/ ClearAllProducts
    \/ Return

SpecDb == Init /\ [][NextDb]_vars

---------------------------------------------------------------------------
(* Two dashboard sessions call upsert_product on the shared Database at    *)
(* the same time.  upsert_product takes no lock (db.py 26-40), so the      *)
(* steps of Table.upsert interleave: Table.update reads the table from the *)
(* storage, changes the matching documents and writes the table back;      *)
(* when none matched, Table.insert reads the table again, adds the         *)
(* document and writes it back.                                            *)

\* lines 30-37: the asin check and the stamping
SessionCall(t, product, dt) ==
    /\ sessions.of[t].pc = "idle"
    /\ clock + dt <= MaxClock
    /\ clock' = clock + dt
    /\ sessions' =
          IF ~Truthy(get(product, "asin"))
          THEN [sessions EXCEPT !.of[t] =
                  [NoSession EXCEPT !.pc = "done", !.status = "raised",
                                    !.product = product, !.now = clock + dt]]
          ELSE [sessions EXCEPT !.of[t] =
                  [NoSession EXCEPT !.pc = "update_read", !.status = "ok",
                                    !.product = product, !.now = clock + dt,
                                    !.data = upsert_data(product, clock + dt)]]
    /\ UNCHANGED <<products, pc, run, ret, world, runs, http>>

\* line 40, Table.upsert -> Table.update: the table is read
SessionUpdateRead(t) ==
    /\ sessions.of[t].pc = "update_read"
    /\ sessions' = [sessions EXCEPT !.of[t].pc = "update_write",
                                    !.of[t].tables = products]
    /\ UNCHANGED <<products, clock, pc, run, ret, world, runs, http>>

\* line 40, Table.update: the changed table is written; Table.upsert returns
\* when a document matched
SessionUpdateWrite(t) ==
    /\ sessions.of[t].pc = "update_write"
    /\ \E me \in {sessions.of[t]} :
          /\ products' = table_update(me.tables, me.data, "asin", me.data["asin"])
          /\ sessions' =
                [sessions EXCEPT !.of[t].pc =
                    IF Matching(me.tables, "asin", me.data["asin"]) # {}
                    THEN "done" ELSE "insert_read"]
    /\ UNCHANGED <<clock, pc, run, ret, world, runs, http>>

\* line 40, Table.upsert -> Table.insert: the table is read again
SessionInsertRead(t) ==
    /\ sessions.of[t].pc = "insert_read"
    /\ sessions' = [sessions EXCEPT !.of[t].pc = "insert_write",
                                    !.of[t].tables = products]
    /\ UNCHANGED <<products, clock, pc, run, ret, world, runs, http>>

\* line 40, Table.insert: the table with the new document is written
SessionInsertWrite(t) ==
    /\ sessions.of[t].pc = "insert_write"
    /\ products' = Append(sessions.of[t].tables, sessions.of[t].data)
    /\ sessions' = [sessions EXCEPT !.of[t].pc = "done"]
    /\ UNCHANGED <<clock, pc, run, ret, world, runs, http>>

\* the Store the sessions find: empty, or holding one record
InitSessions ==
    \E docs \in {<< >>,
                 upsert_product(<< >>, [asin |-> "P1", title |-> "t"], 0).products} :
        /\ products = docs
        /\ clock = 0
        /\ pc = "idle"
        /\ run = NoRun
        /\ ret = NoRet
        /\ world = FreeWorld
        /\ runs = << >>
        /\ sessions = [NoSessions EXCEPT !.base = docs]
        /\ http = NoHttp

NextSessions ==
    \/ \E t \in Threads, product \in DbProducts, dt \in {0, 1} :
          SessionCall(t, product, dt)
    \/ \E t \in Threads : SessionUpdateRead(t)
    \/ \E t \in Threads : SessionUpdateWrite(t)
    \/ \E t \in Threads : SessionInsertRead(t)
    \/ \E t \in Threads : SessionInsertWrite(t)

SpecSessions == InitSessions /\ [][NextSessions]_vars

---------------------------------------------------------------------------
(* _post_query, attempt by attempt (oxylabs_client.py 17-46).  The         *)
(* credentials are set: src/config.py raises while the module is imported  *)
(* when one is missing, so the check of lines 21-22 never fires.           *)

\* the payloads _post_query is called with
HttpPayloads ==
    {detail_payload(a, "", "com") : a \in Ids}
        \cup Range(search_payloads("com", None, 1, ""))

\* what response.json() gives for a request that succeeded
HttpResponses == DetailContents \cup {[items |-> l] : l \in Listings}

\* line 24: the loop is entered with attempt 1
PostQuery(payload) ==
    /\ http.pc = "idle"
    /\ http' = [NoHttp EXCEPT !.pc = "request", !.payload = payload, !.attempt = 1]
    /\ UNCHANGED <<products, clock, pc, run, ret, world, runs, sessions>>

\* lines 25-43: requests.post answers, or raises a RequestException
PostAttempt(outcome) ==
    /\ http.pc = "request"
    /\ http' =
          IF outcome # Fail
          THEN [http EXCEPT !.pc = "done", !.status = "returned",
                            !.outcomes = Append(@, TRUE), !.value = outcome]
          ELSE IF last_attempt(http.attempt)
               THEN [http EXCEPT !.pc = "done", !.status = "raised",
                                 !.outcomes = Append(@, FALSE)]
               ELSE [http EXCEPT !.pc = "sleep", !.outcomes = Append(@, FALSE)]
    /\ UNCHANGED <<products, clock, pc, run, ret, world, runs, sessions>>

\* line 44, then the next round of the loop of line 24, or line 46 when the
\* range is used up
PostSleep ==
    /\ http.pc = "sleep"
    /\ http' =
          IF http.attempt + 1 > MAX_RETRIES
          THEN [http EXCEPT !.pc = "done", !.status = "unreachable",
                            !.sleeps = Append(@, RETRY_BACKOFF * http.attempt)]
          ELSE [http EXCEPT !.pc = "request", !.attempt = @ + 1,
                            !.sleeps = Append(@, RETRY_BACKOFF * http.attempt)]
    /\ UNCHANGED <<products, clock, pc, run, ret, world, runs, sessions>>

\* the caller takes the response or the exception
PostReturn ==
    /\ http.pc = "done"
    /\ http' = NoHttp
    /\ UNCHANGED <<products, clock, pc, run, ret, world, runs, sessions>>

NextPost ==
    \/ \E payload \in HttpPayloads : PostQuery(payload)
    \/ \E outcome \in {Fail} \cup HttpResponses : PostAttempt(outcome)
    \/ PostSleep
    \/ PostReturn

SpecPost == Init /\ [][NextPost]_vars

---------------------------------------------------------------------------
(* One fetch_and_store_competitors run, request by request: every          *)
(* _post_query call of the run (oxylabs_client.py 151 and 80) goes through *)
(* the attempts of lines 24-46, and the run counts the HTTP requests       *)
(* posted for searches and for details.                                    *)

\* services.py 59: the default of pages, and a value below 1
PageChoices == {0, 2}

\* run.k: the search payload in hand; run.results, run.seen_asins: the
\* locals of the search_competitors call in hand; run.search_posts,
\* run.detail_posts: HTTP requests posted by the calls already taken
NoCall ==
    [k |-> 0, results |-> << >>, seen_asins |-> {}, search_posts |-> 0,
     detail_posts |-> 0, status |-> "none"] @@ NoRun

\* services.py 92-101 with oxylabs_client.py 136-149: the payloads of all
\* search_competitors calls of a run, in order
RECURSIVE run_payloads(_, _, _, _, _)
run_payloads(domain, geo, categories, pages, i) ==
    IF i > Len(categories)
    THEN << >>
    ELSE search_payloads(domain, categories[i], pages, geo)
            \o run_payloads(domain, geo, categories, pages, i + 1)

\* the number of requests one search_competitors call makes
per_category(pages) == Len(Strategies) * Max(1, pages)

\* the parents of the runs: a product of the catalog with no, one or four
\* categories, stored by scrape_and_store_product
CallParents ==
    {scrape_and_store_product(
        << >>, "P1", "", "com",
        [asin |-> "P1", title |-> "t", categories |-> cats,
         category_path |-> << >>], 1).products :
       cats \in {<< >>, <<"c1">>, <<"c1", "c2", "c3", "c4">>}}

InitCall ==
    /\ products \in CallParents
    /\ clock = 1
    /\ pc = "idle"
    /\ run = NoRun
    /\ ret = NoRet
    /\ world = [fixed |-> TRUE,
                search |-> [listing |-> <<[asin |-> "C1", title |-> "t"],
                                          [asin |-> "C2", title |-> "t"]>>,
                            failing |-> None],
                detail |-> [a \in Ids |->
                              CHOOSE c \in DetailContents : c.asin = a]]
    /\ runs = << >>
    /\ sessions = NoSessions
    /\ http = NoHttp

\* services.py 67-90: the parent is looked up, domain, geo and categories
\* are decided; oxylabs_client.py 130 raises on a title that is None
CallDiscovery(parent_asin, pages, limit) ==
    /\ pc = "idle"
    /\ http.pc = "idle"
    /\ get_product(products, parent_asin) # NoneDict
    /\ clock < MaxClock
    /\ \E parent \in {get_product(products, parent_asin)} :
       \E categories \in category_lists(parent) :
          /\ run' = [NoCall EXCEPT
                       !.parent_asin = parent_asin,
                       !.domain = search_domain(parent, None),
                       !.geo = search_geo(parent, None),
                       !.limit = limit,
                       !.pages = pages,
                       !.before = products,
                       !.categories = categories,
                       !.payloads =
                          IF get(parent, "title") = None
                          THEN << >>
                          ELSE run_payloads(search_domain(parent, None),
                                            search_geo(parent, None),
                                            categories, pages, 1),
                       !.k = 1,
                       !.status = IF get(parent, "title") = None
                                  THEN "raised" ELSE "running"]
          /\ pc' = IF get(parent, "title") = None THEN "returned" ELSE "search"
    /\ UNCHANGED <<products, clock, ret, world, runs, sessions, http>>

\* oxylabs_client.py 151: the search request in hand is handed to _post_query
SearchPost ==
    /\ pc = "search"
    /\ run.k <= Len(run.payloads)
    /\ PostQuery(run.payloads[run.k])

\* oxylabs_client.py 80: the detail request in hand is handed to _post_query
DetailPost ==
    /\ pc = "fetch"
    /\ run.i <= Len(run.asins)
    /\ PostQuery(detail_payload(run.asins[run.i], run.geo, run.domain))

\* what the API answers to the request in hand when it answers
http_response ==
    IF get(http.payload, "source") = "amazon_search"
    THEN [items |-> world.search.listing]
    ELSE world.detail[http.payload.query]

\* requests.post of the request in hand answers or fails within its timeout
Attempt ==
    /\ http.pc = "request"
    /\ \E outcome \in {Fail, http_response} : PostAttempt(outcome)

\* oxylabs_client.py 151-161 and services.py 92-113: _post_query returned or
\* raised to search_competitors
SearchTake ==
    /\ pc = "search"
    /\ http.pc = "done"
    /\ http' = NoHttp
    /\ IF http.status # "returned"
       THEN /\ run' = [run EXCEPT !.search_posts = @ + Len(http.outcomes),
                                  !.status = "raised"]
            /\ pc' = "returned"
       ELSE \E acc \in {add_items(http.value.items, 1, run.results,
                                  run.seen_asins)} :
            \E last \in {run.k % per_category(run.pages) = 0} :
            \E all_results \in {IF last THEN run.all_results \o acc.results
                                ELSE run.all_results} :
            \E r1 \in {[run EXCEPT
                          !.search_posts = @ + Len(http.outcomes),
                          !.k = @ + 1,
                          !.results = IF last THEN << >> ELSE acc.results,
                          !.seen_asins = IF last THEN {} ELSE acc.seen_asins,
                          !.all_results = all_results]} :
               IF run.k < Len(run.payloads)
               THEN /\ run' = r1
                    /\ pc' = "search"
               ELSE \E found \in {competitor_asin_set(all_results,
                                                      run.parent_asin)} :
                       IF found = {}
                       THEN /\ run' = [r1 EXCEPT !.status = "ok"]
                            /\ pc' = "returned"
                       ELSE /\ \E competitor_asins \in Orderings(found) :
                                  run' = [r1 EXCEPT
                                            !.competitor_asins = competitor_asins,
                                            !.asins = Take(competitor_asins,
                                                           run.limit),
                                            !.i = 1]
                            /\ pc' = "fetch"
    /\ UNCHANGED <<products, clock, ret, world, runs, sessions>>

\* oxylabs_client.py 213-222: _post_query returned or raised to
\* scrape_product_details; scrape_multiple_products catches the exception
DetailTake ==
    /\ pc = "fetch"
    /\ http.pc = "done"
    /\ http' = NoHttp
    /\ \E resp \in {IF http.status = "returned" THEN http.value ELSE Fail} :
       \E step \in {scrape_multiple_step(run.scraped_products, run.asins[run.i],
                                         run.geo, run.domain, resp)} :
          run' = [run EXCEPT !.detail_posts = @ + Len(http.outcomes),
                             !.i = @ + 1,
                             !.scraped_products = step.products,
                             !.attempted = Append(@, run.asins[run.i])]
    /\ UNCHANGED <<products, clock, pc, ret, world, runs, sessions>>

\* services.py 123-148: the batch is stored and the run returns
StoreAndReturn ==
    /\ pc = "fetch"
    /\ http.pc = "idle"
    /\ run.i > Len(run.asins)
    /\ \E r \in {store_competitors(products, run.scraped_products, 1, << >>,
                                   run.parent_asin, run.domain, run.geo,
                                   clock + 1)} :
          /\ products' = r.products
          /\ clock' = IF r.stored = << >> THEN clock ELSE clock + 1
    /\ run' = [run EXCEPT !.status = "ok"]
    /\ pc' = "returned"
    /\ UNCHANGED <<ret, world, runs, sessions, http>>

\* the caller takes the result of the run
CallReturn ==
    /\ pc = "returned"
    /\ pc' = "idle"
    /\ run' = NoRun
    /\ UNCHANGED <<products, clock, ret, world, runs, sessions, http>>

NextCall ==
    \/ \E parent_asin \in Ids, pages \in PageChoices, limit \in 0..MaxLimit :
          CallDiscovery(parent_asin, pages, limit)
    \/ SearchPost
    \/ DetailPost
    \/ Attempt
    \/ PostSleep
    \/ SearchTake
    \/ DetailTake
    \/ StoreAndReturn
    \/ CallReturn

SpecCall == InitCall /\ [][NextCall]_vars

\* every request answers or fails within its timeout, and the run is one
\* synchronous call that keeps running
SpecCallLive == SpecCall /\ WF_vars(NextCall)

---------------------------------------------------------------------------
(* Properties *)

Asin(d) == get(d, "asin")

HasRecord(docs, asin) == \E i \in 1..Len(docs) : Asin(docs[i]) = asin

Distinct(s) == \A i, j \in 1..Len(s) : i # j => s[i] # s[j]

ValidHit(item) == Truthy(get(item, "asin")) /\ Truthy(get(item, "title"))

\* the asins of the valid hits other than the parent, in first-seen order
FirstSeen(hits, parent_asin) ==
    LET first == {i \in 1..Len(hits) :
                    /\ ValidHit(hits[i])
                    /\ hits[i].asin # parent_asin
                    /\ \A j \in 1..(i - 1) : ~(ValidHit(hits[j]) /\ hits[j].asin = hits[i].asin)}
        idx == SelectSeq([i \in 1..Len(hits) |-> i], LAMBDA i : i \in first)
    IN  [n \in 1..Len(idx) |-> hits[idx[n]].asin]

DiscoveryReturned == ret.op = "discover" /\ ret.status = "ok"

\* C1: in every reachable store state of the service operations, no record
\* without a non-empty title is present in the Store.
C1_NoUntitledRecord ==
    \A i \in 1..Len(products) : Truthy(get(products[i], "title"))

\* C2: fetch_and_store_competitors never returns, and never stores as a
\* competitor, a record whose asin equals the parent's asin.
C2_ParentNeverReturned ==
    DiscoveryReturned =>
        /\ \A i \in 1..Len(ret.value) : Asin(ret.value[i]) # ret.asin
        /\ \A i \in 1..Len(products) :
              ~(/\ Asin(products[i]) = ret.asin
                /\ get(products[i], "type") = "competitor"
                /\ get(products[i], "parent_asin") = ret.asin)

\* C3: the sequence fetch_and_store_competitors returns holds no two records
\* with the same asin, and its length is at most limit.
C3_DistinctAndBounded ==
    DiscoveryReturned =>
        /\ Len(ret.value) <= ret.limit
        /\ Distinct([i \in 1..Len(ret.value) |-> Asin(ret.value[i])])

\* C4: after any sequence of upsert_product, delete_product,
\* delete_competitors and clear_all calls the Store holds at most one record
\* per asin, whatever the records' type; an upsert of an asin already stored
\* merges into the stored record and adds none.
C4_OneRecordPerId ==
    /\ Distinct([i \in 1..Len(products) |-> Asin(products[i])])
    /\ (ret.op = "upsert" /\ ret.status = "ok" /\ HasRecord(ret.before, ret.asin))
          => /\ Len(products) = Len(ret.before)
             /\ \A i \in 1..Len(products) :
                   /\ Asin(products[i]) = Asin(ret.before[i])
                   /\ Asin(products[i]) = ret.asin =>
                         \A k \in DOMAIN ret.value[1] :
                            products[i][k] = ret.value[1][k]
                   /\ Asin(products[i]) # ret.asin => products[i] = ret.before[i]

\* C4 witness: an asin stored as a competitor is upserted again as a product
C4_Witness ==
    /\ ret.op = "upsert" /\ ret.status = "ok"
    /\ "type" \notin DOMAIN ret.value[1]
    /\ \E i \in 1..Len(ret.before) :
          /\ Asin(ret.before[i]) = ret.asin
          /\ get(ret.before[i], "type") = "competitor"
    /\ Len(products) = 2

\* C5: two runs of fetch_and_store_competitors against the same parent with
\* unchanged external search and detail results give the same set of
\* competitor asins (returned, and in get_competitors(parent)), whatever the
\* number of candidates, and each returned record's updated_at is strictly
\* greater after the second run.
C5_RerunSameCompetitors ==
    (/\ Len(runs) = 2
     /\ runs[1].parent_asin = runs[2].parent_asin
     /\ runs[1].limit = runs[2].limit
     /\ runs[1].status = "ok" /\ runs[2].status = "ok")
       => /\ runs[1].ids = runs[2].ids
          /\ runs[1].competitors = runs[2].competitors
          /\ \A a \in runs[2].ids : runs[2].updated_at[a] > runs[1].updated_at[a]

\* C6: across upsert_product calls for one asin the stored created_at keeps
\* the value the first upsert set, while updated_at is set anew on every call
\* and never decreases.
C6_CreatedAtKept ==
    (ret.op = "upsert" /\ ret.status = "ok" /\ HasRecord(ret.before, ret.asin))
       => /\ get_product(products, ret.asin).created_at
                = get_product(ret.before, ret.asin).created_at
          /\ get_product(products, ret.asin).updated_at = clock
          /\ get_product(products, ret.asin).updated_at
                >= get_product(ret.before, ret.asin).updated_at

\* the products of the fetches of the batch that did not raise, in order
Survivors(r) ==
    LET idx == SelectSeq([k \in 1..Len(r.responses) |-> k],
                         LAMBDA k : r.responses[k] # Fail)
    IN  [n \in 1..Len(idx) |->
            scrape_product_details(r.attempted[idx[n]], r.geo, r.domain,
                                   r.responses[idx[n]]).product]

\* C7: scrape_multiple_products isolates failures per item: whichever fetches
\* raise, every identifier is attempted exactly once, no exception reaches
\* the caller, and the result holds exactly the records of the identifiers
\* whose fetch did not raise.
C7_BatchIsolatesFailures ==
    /\ pc = "fetch" =>
          /\ run.attempted = Take(run.asins, run.i - 1)
          /\ run.scraped_products = Survivors(run)
    /\ (ret.op = "discover" /\ ret.details > 0) =>
          /\ ret.status = "ok"
          /\ ret.attempted = ret.asins

\* C7 witness: a batch of two whose first fetch raised and whose second did not
C7_Witness ==
    /\ pc = "fetch"
    /\ Len(run.asins) = 2
    /\ run.i = 3
    /\ run.responses[1] = Fail
    /\ run.responses[2] # Fail
    /\ Len(run.scraped_products) = 1

\* C8: with limit L and n deduplicated candidates in first-seen order,
\* fetch_and_store_competitors fetches details for exactly the first
\* min(L, n) candidates of that order and for no other identifier.
C8_FetchesFirstCandidates ==
    /\ pc = "fetch" =>
          run.asins = Take(FirstSeen(run.all_results, run.parent_asin), run.limit)
    /\ DiscoveryReturned =>
          ret.attempted = Take(FirstSeen(ret.all_results, ret.asin), ret.limit)

\* the hits the search API served over the whole fan-out of a run
Served(r) == r.hits

\* C9: the candidate list handed to the batch fetcher holds each asin of a
\* valid search hit at most once across all sort strategies, category filters
\* and pages, never the parent's asin, and no asin that was not in a valid
\* hit; when limit does not cut it, it holds every such asin (hits C1, C1, P1
\* give exactly [C1]).
C9_CandidateList ==
    pc = "fetch" =>
        /\ Distinct(run.competitor_asins)
        /\ Distinct(run.asins)
        /\ \A i \in 1..Len(run.asins) :
              /\ run.asins[i] # run.parent_asin
              /\ \E k \in 1..Len(Served(run)) :
                    ValidHit(Served(run)[k]) /\ Served(run)[k].asin = run.asins[i]
        /\ Range(run.competitor_asins) = Range(FirstSeen(Served(run), run.parent_asin))
        /\ run.asins = Take(run.competitor_asins, run.limit)

\* C9 witness: the hits C1 and P1, served again for every strategy and both
\* category filters of parent P1, give the candidate list [C1]
C9_Witness ==
    /\ pc = "fetch"
    /\ run.parent_asin = "P1"
    /\ run.hits = <<[asin |-> "C1", title |-> "t"], [asin |-> "P1", title |-> "t"]>>
    /\ Len(run.all_results) = 4
    /\ run.searches = 6
    /\ run.asins = <<"C1">>

\* C10: when the parent asin is not in the Store, fetch_and_store_competitors
\* raises before any external request is issued and the Store is unchanged.
C10_MissingParent ==
    (ret.op = "discover" /\ ~HasRecord(ret.before, ret.asin)) =>
        /\ ret.status = "raised"
        /\ ret.searches = 0
        /\ ret.details = 0
        /\ products = ret.before

\* C10 witness: discovery asked for an asin missing from a non-empty Store
C10_Witness ==
    /\ ret.op = "discover"
    /\ ret.before # << >>
    /\ ~HasRecord(ret.before, ret.asin)
    /\ ret.status = "raised"

\* C11: when search requests were issued, all succeeded and no valid hit
\* other than the parent was served, fetch_and_store_competitors returns an
\* empty sequence without raising, issues no detail request and leaves the
\* Store unchanged.
C11_NoCandidates ==
    (/\ ret.op = "discover"
     /\ ret.searches > 0
     /\ ret.failures = 0
     /\ FirstSeen(ret.hits, ret.asin) = << >>)
       => /\ ret.status = "ok"
          /\ ret.value = << >>
          /\ ret.details = 0
          /\ products = ret.before

\* C11 witness: the search served only the parent and a hit without title
C11_Witness ==
    /\ ret.op = "discover"
    /\ ret.status = "ok"
    /\ ret.asin = "P1"
    /\ ret.searches = 6
    /\ ret.hits = <<[asin |-> "P1", title |-> "t"], [asin |-> "C2", title |-> None]>>
    /\ ret.value = << >>
    /\ Len(ret.before) = 2

\* C12: upsert_product raises when the record's asin is absent and also when
\* its title is absent, and in both cases the Store is unchanged.
C12_UpsertValidates ==
    (/\ ret.op = "upsert"
     /\ ~Truthy(get(ret.value[1], "asin")) \/ ~Truthy(get(ret.value[1], "title")))
       => /\ ret.status = "raised"
          /\ products = ret.before

\* the table after the two calls ran one after the other, first then second
Serial(first, second) ==
    upsert_product(
        upsert_product(sessions.base, sessions.of[first].product,
                       sessions.of[first].now).products,
        sessions.of[second].product, sessions.of[second].now).products

\* C13: concurrent upserts on the shared Database are serialized: whatever
\* the interleaving of the read and write steps of two upsert_product calls,
\* the final Store is what the two calls give in one of the two sequential
\* orders, with one record per asin and no write lost.
C13_UpsertsSerialized ==
    (\A t \in Threads : sessions.of[t].pc = "done")
       => /\ products \in {Serial("s1", "s2"), Serial("s2", "s1")}
          /\ Distinct([i \in 1..Len(products) |-> Asin(products[i])])

\* C14: when fetch_and_store_competitors returns normally, every returned
\* record is in the Store under its asin with type competitor, parent_asin
\* the parent's asin, and the domain and geo of the run; get_competitors of
\* the parent holds every returned asin.
C14_ReturnedAreStored ==
    DiscoveryReturned =>
        \A i \in 1..Len(ret.value) :
           /\ HasRecord(products, Asin(ret.value[i]))
           /\ get(get_product(products, Asin(ret.value[i])), "type") = "competitor"
           /\ get(get_product(products, Asin(ret.value[i])), "parent_asin") = ret.asin
           /\ get(get_product(products, Asin(ret.value[i])), "amazon_domain") = ret.domain
           /\ get(get_product(products, Asin(ret.value[i])), "geo_location") = ret.geo
           /\ \E j \in 1..Len(get_competitors(products, ret.asin)) :
                 Asin(get_competitors(products, ret.asin)[j]) = Asin(ret.value[i])

\* C14 witness: a run for P1 returned the records of C1 and C2
C14_Witness ==
    /\ DiscoveryReturned
    /\ ret.asin = "P1"
    /\ Len(ret.value) = 2
    /\ {Asin(ret.value[1]), Asin(ret.value[2])} = {"C1", "C2"}
    /\ Len(products) = 3

\* C15: in every Store state reachable by primary scrapes, discovery runs
\* and clears, a record carries parent_asin only when its type is
\* competitor; a primary re-scrape of an asin stored earlier as a competitor
\* leaves no primary record with a parent reference.
C15_ParentOnlyOnCompetitors ==
    \A i \in 1..Len(products) :
       "parent_asin" \in DOMAIN products[i] => get(products[i], "type") = "competitor"

\* C16: each _post_query call issues at least 1 and at most 3 HTTP requests:
\* it returns the first successful response and posts nothing after it,
\* raises the transport error only after 3 failed attempts in a row, waits
\* between two attempts 1x then 2x the base delay, and does not wait after
\* the last failed attempt.
C16_PostQueryRetries ==
    /\ Len(http.outcomes) <= 3
    /\ \A k \in 1..(Len(http.outcomes) - 1) : ~http.outcomes[k]
    /\ \A k \in 1..Len(http.sleeps) : http.sleeps[k] = k * RETRY_BACKOFF
    /\ \A k \in 1..(Len(http.sleeps) - 1) : http.sleeps[k] < http.sleeps[k + 1]
    /\ http.pc = "request" => Len(http.sleeps) = Len(http.outcomes)
    /\ http.pc = "done" =>
          /\ Len(http.outcomes) >= 1
          /\ Len(http.sleeps) = Len(http.outcomes) - 1
          /\ http.status \in {"returned", "raised"}
          /\ http.status = "returned" <=> http.outcomes[Len(http.outcomes)]
          /\ http.status = "raised" =>
                /\ Len(http.outcomes) = 3
                /\ \A k \in 1..3 : ~http.outcomes[k]
                /\ http.sleeps = <<RETRY_BACKOFF, 2 * RETRY_BACKOFF>>

\* C16 witness: the third attempt succeeded after waits of 1.5 s and 3 s
C16_Witness ==
    /\ http.pc = "done"
    /\ http.status = "returned"
    /\ http.outcomes = <<FALSE, FALSE, TRUE>>
    /\ http.sleeps = <<15, 30>>

\* C17: when one search request of a discovery run fails after its retries,
\* only that iteration's contribution is lost: the run goes on, returns
\* normally, and fetches and stores the candidates the other iterations
\* gathered (the failing API here lists C1 and C2 in every other answer).
C17_SearchFailureDegrades ==
    (ret.op = "discover" /\ ret.failures > 0)
       => /\ ret.status = "ok"
          /\ ret.limit > 0 => ret.details > 0

\* C18: a discovery run never deletes a record: every asin in the Store
\* before fetch_and_store_competitors is in the Store after it, whether it
\* returns or raises, competitors of the same parent that the run no longer
\* surfaces included; records disappear only through the clear operations
\* (a primary scrape deletes none either).
C18_DiscoveryKeepsRecords ==
    /\ pc = "fetch" => products = run.before
    /\ ret.op \in {"discover", "scrape"} =>
          \A i \in 1..Len(ret.before) : HasRecord(products, Asin(ret.before[i]))

\* C18 witness: the Store holds a competitor of the parent, and a new run
\* for that parent, whose search surfaces nothing, returned
C18_Witness ==
    /\ DiscoveryReturned
    /\ ret.searches > 0
    /\ ret.hits = << >>
    /\ \E i \in 1..Len(ret.before) :
          /\ get(ret.before[i], "type") = "competitor"
          /\ get(ret.before[i], "parent_asin") = ret.asin
          /\ Asin(ret.before[i]) # ret.asin
          /\ HasRecord(products, Asin(ret.before[i]))

\* C19: the effective domain and geo of a discovery run are the parent's
\* stored value when it is non-empty, else the caller's value when it is
\* non-empty, else domain com and empty geo; every search request and every
\* detail request of the run carries them (a detail request carries no geo
\* when it is empty), and every stored competitor is stamped with them.
C19_EffectiveDomainGeo ==
    (ret.op = "discover" /\ HasRecord(ret.before, ret.asin)) =>
        /\ ret.domain =
              IF Truthy(get(get_product(ret.before, ret.asin), "amazon_domain"))
              THEN get_product(ret.before, ret.asin).amazon_domain
              ELSE IF Truthy(ret.arg_domain) THEN ret.arg_domain ELSE "com"
        /\ ret.geo =
              IF Truthy(get(get_product(ret.before, ret.asin), "geo_location"))
              THEN get_product(ret.before, ret.asin).geo_location
              ELSE IF Truthy(ret.arg_geo) THEN ret.arg_geo ELSE ""
        /\ \A k \in 1..Len(ret.payloads) :
              /\ ret.payloads[k].domain = ret.domain
              /\ ret.payloads[k].geo_location = ret.geo
        /\ \A k \in 1..Len(ret.detail_requests) :
              /\ ret.detail_requests[k].domain = ret.domain
              /\ Truthy(ret.geo) => get(ret.detail_requests[k], "geo_location") = ret.geo
              /\ ~Truthy(ret.geo) => "geo_location" \notin DOMAIN ret.detail_requests[k]
        /\ \A i \in 1..Len(ret.value) :
              /\ get(ret.value[i], "amazon_domain") = ret.domain
              /\ get(ret.value[i], "geo_location") = ret.geo
              /\ get(get_product(products, Asin(ret.value[i])), "amazon_domain") = ret.domain
              /\ get(get_product(products, Asin(ret.value[i])), "geo_location") = ret.geo

\* C19 witness: the parent has a geo and no domain, the caller gave both: the
\* run used the caller's domain and the parent's geo, and stored a competitor
C19_Witness ==
    /\ DiscoveryReturned
    /\ Len(ret.value) = 1
    /\ Len(ret.detail_requests) = 1
    /\ get_product(ret.before, ret.asin).amazon_domain = ""
    /\ get_product(ret.before, ret.asin).geo_location = "90210"
    /\ ret.arg_domain = "de"
    /\ ret.arg_geo = "10001"
    /\ ret.domain = "de"
    /\ ret.geo = "90210"

\* the category strings of a parent: the distinct non-empty stripped strings
\* of its categories and category_path
CategoryStrings(parent) ==
    {strip(c) : c \in Range(getOr(parent, "categories", << >>))
                        \cup Range(getOr(parent, "category_path", << >>))} \ {""}

\* C20: in a discovery run where no request fails, the search fan-out issues
\* exactly one search request per sort strategy x category filter x page in
\* 1..max(1, pages); the category filters are at most 3 distinct category
\* strings of the parent, and when the parent has none, one pass is made
\* with no category refinement, never zero passes.
C20_SearchFanOut ==
    (ret.op = "discover" /\ HasRecord(ret.before, ret.asin) /\ ret.failures = 0)
       => /\ Distinct(ret.categories)
          /\ Len(ret.categories) <= 3
          /\ IF CategoryStrings(get_product(ret.before, ret.asin)) = {}
             THEN ret.categories = <<None>>
             ELSE /\ Range(ret.categories)
                        \subseteq CategoryStrings(get_product(ret.before, ret.asin))
                  /\ Len(ret.categories) >= 1
          /\ Len(ret.payloads)
                = Len(Strategies) * Len(ret.categories) * Max(1, ret.pages)
          /\ \A sort_by \in Range(Strategies), category \in Range(ret.categories),
                page \in 1..Max(1, ret.pages) :
                \E k \in 1..Len(ret.payloads) :
                   /\ ret.payloads[k].sort_by = sort_by
                   /\ ret.payloads[k].category = category
                   /\ ret.payloads[k].page = page

\* C21: delete_competitors(parentId) removes exactly the records that
\* get_competitors(parentId) returns and never a record of type product,
\* also after an id stored as a competitor of parentId was re-scraped as a
\* primary product.
C21_DeleteOnlyCompetitors ==
    ret.op = "clear_competitors"
       => /\ \A d \in Range(ret.before) :
                (d \in Range(products))
                   <=> (d \notin Range(get_competitors(ret.before, ret.asin)))
          /\ Range(products) \subseteq Range(ret.before)
          /\ \A d \in Range(ret.before) :
                get(d, "type") = "product" => d \in Range(products)

\* C22: a discovery run never removes a record from the primary set: every
\* id get_all_products() returned before fetch_and_store_competitors(P) is
\* still returned afterwards with type product, also when a discovered
\* competitor's id is the id of another stored primary product.
C22_PrimarySetKept ==
    ret.op = "discover"
       => \A d \in Range(get_all_products(ret.before)) :
             \E e \in Range(get_all_products(products)) : Asin(e) = Asin(d)

\* the records of docs whose asin is not the given one, in their order
Others(docs, asin) == SelectSeq(docs, LAMBDA d : Asin(d) # asin)

\* C23: scrape_and_store_product either stores exactly one record for the
\* requested asin, of type product and with a non-empty title, or raises and
\* leaves the Store unchanged (transport failure, empty response, response
\* without title).
C23_ScrapeStoresOrRaises ==
    ret.op = "scrape"
       => IF ret.status = "ok"
          THEN /\ Cardinality(Matching(products, "asin", ret.asin)) = 1
               /\ get(get_product(products, ret.asin), "type") = "product"
               /\ Truthy(get(get_product(products, ret.asin), "title"))
               /\ Others(products, ret.asin) = Others(ret.before, ret.asin)
          ELSE /\ ret.status = "raised"
               /\ products = ret.before

\* a scrape for an asin the Store already holds raised
C23_Witness ==
    /\ ret.op = "scrape"
    /\ ret.status = "raised"
    /\ HasRecord(ret.before, ret.asin)

\* the HTTP requests posted so far by the run in hand, for searches and for
\* details
SearchPosts ==
    run.search_posts + (IF pc = "search" THEN Len(http.outcomes) ELSE 0)

DetailPosts ==
    run.detail_posts + (IF pc = "fetch" THEN Len(http.outcomes) ELSE 0)

RequestsBounded ==
    run # NoRun
       => /\ Len(run.categories) <= 3
          /\ SearchPosts <= MAX_RETRIES * (Len(Strategies) * Len(run.categories)
                                             * Max(1, run.pages))
          /\ DetailPosts <= MAX_RETRIES * run.limit

\* C24: every fetch_and_store_competitors run terminates (returns or
\* raises), provided each HTTP request returns or fails within its timeout;
\* it posts at most 3 x (3 x C x max(1, pages)) search requests with C <= 3
\* category filters and at most 3 x limit detail requests.
C24_RunTerminatesBounded ==
    /\ []RequestsBounded
    /\ (pc \in {"search", "fetch"}) ~> (pc = "returned")

\* a run of a parent with four categories, two pages and limit 2 returned
\* after every search and detail request had used its three attempts
C24_Witness ==
    /\ pc = "returned"
    /\ run.status = "ok"
    /\ run.pages = 2
    /\ run.limit = 2
    /\ Len(run.categories) = 3
    /\ run.search_posts = MAX_RETRIES * (Len(Strategies) * 3 * 2)
    /\ run.detail_posts = MAX_RETRIES * 2

====
